---- MODULE Spec2Model ----
(***************************************************************************)
(* A model of the vulcan-cors middleware: the CORS policy lookup           *)
(* (getHostAndMethods, checkMethod), the construction-time validation      *)
(* (New, FromOther, validateOrigins) and the two request handlers          *)
(* (CorsHandler.ServeHTTP and Handler.ServeHTTP) of src/cors.go.           *)
(*                                                                         *)
(* Go values are modelled as follows.                                      *)
(*   - a []string is a record [isNil, items]: Go tells a nil slice from an *)
(*     empty one (s != nil), and both have length 0;                       *)
(*   - a map[string][]string is a record [isNil, kv], kv a function from   *)
(*     its keys; reading a missing key gives the nil slice;                *)
(*   - a string is a TLA+ string; "" is also what Header.Get returns for   *)
(*     a header that is absent;                                            *)
(*   - an http.ResponseWriter is a record [header, status, sent]: status 0 *)
(*     means no status has been written, and sent is the header map as it  *)
(*     was when the status was written (later changes are not sent).       *)
(***************************************************************************)
EXTENDS Naturals, Sequences, FiniteSets

VARIABLES
    allowedOrigins, \* the map handed to New / FromOther / getHostAndMethods
    made,           \* the result of the last New or FromOther call
    lk,             \* the result of the last getHostAndMethods call
    variant,        \* which handler type is installed
    cfg,            \* the handler's policy (CorsMiddleware.AllowedOrigins)
    hdrPolicy,      \* the extended Middleware's allowed headers per origin
    pc,             \* "idle" or "served"
    req,            \* the request being handled
    x               \* the exchange: response writer, calls of next, log

vars == <<allowedOrigins, made, lk, variant, cfg, hdrPolicy, pc, req, x>>

(***************************************************************************)
(* Bounds and input domains                                                *)
(***************************************************************************)
\* longest method list of a policy entry
MaxLen == 1

\* longest list of header names in Access-Control-Request-Headers
MaxFields == 2

MethodTokens == {"GET", "OPTIONS", "*"}
PolicyKeys == {"", "*", "http://a.com"}
RequestOrigins == {"", "*", "http://a.com", "http://b.com"}
RequestMethods == {"GET", "DELETE", "OPTIONS"}
RequestMethodValues == {"", "GET", "OPTIONS"}
HeaderNames == {"X-A"}
HeaderPolicies == {<<>>, <<"X-A">>, <<"*">>}

SeqsUpTo(S, n) == UNION {[1..k -> S] : k \in 0..n}

(***************************************************************************)
(* Go slices and maps                                                      *)
(***************************************************************************)
NilSlice == [isNil |-> TRUE, items |-> <<>>]

MkSlice(s) == [isNil |-> FALSE, items |-> s]

Slices == {NilSlice} \cup {MkSlice(s) : s \in SeqsUpTo(MethodTokens, MaxLen)}

NilMap == [isNil |-> TRUE, kv |-> <<>>]

MkMap(f) == [isNil |-> FALSE, kv |-> f]

GoMaps == {NilMap} \cup {MkMap(f) : f \in UNION {[K -> Slices] : K \in SUBSET PolicyKeys}}

\* m[k]: the zero value (a nil slice) when k is not a key
MapGet(m, k) == IF k \in DOMAIN m.kv THEN m.kv[k] ELSE NilSlice

\* len(m)
MapLen(m) == Cardinality(DOMAIN m.kv)

(***************************************************************************)
(* strings.Join(_, ",") and strings.Split(_, ",")                          *)
(***************************************************************************)
RECURSIVE Join(_)
Join(a) ==
    IF Len(a) = 0 THEN ""
    ELSE IF Len(a) = 1 THEN a[1]
    ELSE a[1] \o "," \o Join(Tail(a))

\* the comma-free fields a header value is made of; Split never returns an
\* empty list: Split("") is the one-element list holding ""
FieldLists == SeqsUpTo(HeaderNames \cup {""}, MaxFields) \ {<<>>}

Split(s) == CHOOSE f \in FieldLists : Join(f) = s

RequestHeadersValues == {Join(f) : f \in FieldLists}

(***************************************************************************)
(* Header names, the preflight method and the log messages                 *)
(***************************************************************************)
Origin == "Origin"
AccessControlAllowOrigin == "Access-Control-Allow-Origin"
AccessControlAllowMethods == "Access-Control-Allow-Methods"
AccessControlRequestMethod == "Access-Control-Request-Method"
originHeader == "Origin"
varyHeader == "Vary"
allowOriginHeader == "Access-Control-Allow-Origin"
allowMethodsHeader == "Access-Control-Allow-Methods"
allowHeadersHeader == "Access-Control-Allow-Headers"
requestMethodHeader == "Access-Control-Request-Method"
requestHeadersHeader == "Access-Control-Request-Headers"
optionsMethod == "OPTIONS"
errorBadOrigin == "Bad Origin"
errorBadMethod == "Bad Method"
errorBadHeader == "Bad Header"
StatusOK == 200
StatusForbidden == 403

(***************************************************************************)
(* Construction: validateOrigins, New, FromOther                           *)
(***************************************************************************)
NoError == "nil"
ErrNoOrigin == "must supply at least one origin or '*'"

validateOrigins_noKeyCheck(origins) ==
    IF MapLen(origins) = 0
    THEN [ok |-> FALSE, err |-> ErrNoOrigin]
    ELSE [ok |-> TRUE, err |-> NoError]

validateOrigins(origins) ==
    IF MapLen(origins) = 0
    THEN [ok |-> FALSE, err |-> ErrNoOrigin]
    ELSE IF \E origin \in DOMAIN origins.kv : origin = ""
    THEN [ok |-> FALSE, err |-> ErrNoOrigin]
    ELSE [ok |-> TRUE, err |-> NoError]

\* a *CorsMiddleware: nil, or a pointer to a struct holding the map
NilMiddleware == [isNil |-> TRUE, AllowedOrigins |-> NilMap]

New(origins) ==
    IF validateOrigins(origins).err # NoError
    THEN [mw |-> NilMiddleware, err |-> validateOrigins(origins).err]
    ELSE [mw |-> [isNil |-> FALSE, AllowedOrigins |-> origins], err |-> NoError]

\* the conversion of a *CorsMiddleware to the interface plugin.Middleware: the
\* interface value has a dynamic type, so it is not nil (v == nil is false)
\* even when the pointer it holds is nil
ToMiddleware(p) == [isNil |-> FALSE, type |-> "*CorsMiddleware", ptr |-> p]

\* c is a CorsMiddleware struct; New's pointer is returned as a plugin.Middleware
FromOther(c) ==
    [mw |-> ToMiddleware(New(c.AllowedOrigins).mw), err |-> New(c.AllowedOrigins).err]

(***************************************************************************)
(* Policy lookup: getHostAndMethods, checkMethod                           *)
(***************************************************************************)
getHostAndMethods(origins, origin) ==
    IF ~MapGet(origins, origin).isNil
    THEN [hostIncluded |-> TRUE, methods |-> MapGet(origins, origin)]
    ELSE IF ~MapGet(origins, "*").isNil
    THEN [hostIncluded |-> TRUE, methods |-> MapGet(origins, "*")]
    ELSE [hostIncluded |-> FALSE, methods |-> MkSlice(<<>>)]

checkMethod_noWildcard(method, methods) ==
    \E i \in 1..Len(methods.items) : methods.items[i] = method

checkMethod(method, methods) ==
    \E i \in 1..Len(methods.items) :
        methods.items[i] = method \/ methods.items[i] = "*"

(***************************************************************************)
(* http.ResponseWriter and the exchange a handler works on                 *)
(***************************************************************************)
ResponseHeaderNames ==
    {varyHeader, allowOriginHeader, allowMethodsHeader, allowHeadersHeader}

NoHeaders == [n \in ResponseHeaderNames |-> <<>>]

NewResponse == [header |-> NoHeaders, status |-> 0, sent |-> NoHeaders]

\* w.Header().Set(name, value)
HeaderSet(w, name, value) == [w EXCEPT !.header[name] = <<value>>]

\* w.Header().Add(name, value)
HeaderAdd(w, name, value) == [w EXCEPT !.header[name] = Append(@, value)]

\* w.WriteHeader(code): the first call fixes the status and the headers sent
WriteHeader(w, code) ==
    IF w.status # 0 THEN w
    ELSE [w EXCEPT !.status = code, !.sent = w.header]

NewExchange == [w |-> NewResponse, next |-> 0, log |-> <<>>]

\* next.ServeHTTP(w, r): the next handler of the chain is entered once more
nextServeHTTP(e) == [e EXCEPT !.next = @ + 1]

\* the request headers the handlers read; r.Header.Get(name) is "" when the
\* header is absent
RequestHeaderNames == {Origin, AccessControlRequestMethod, requestHeadersHeader}

HeaderGet(r, name) == r.Header[name]

(***************************************************************************)
(* CorsHandler.ServeHTTP                                                   *)
(***************************************************************************)
requestDenied(e, message) ==
    [e EXCEPT !.log = Append(@, message), !.w = WriteHeader(@, StatusForbidden)]

preflightMethodOK_checked(r, methods) ==
    IF HeaderGet(r, AccessControlRequestMethod) # ""
    THEN checkMethod(HeaderGet(r, AccessControlRequestMethod), methods)
    ELSE checkMethod(r.Method, methods)

\* methodOK of the preflight branch
preflightMethodOK(r, methods) ==
    IF HeaderGet(r, AccessControlRequestMethod) # ""
    THEN checkMethod(HeaderGet(r, AccessControlRequestMethod), methods)
    ELSE TRUE

CorsHandler_ServeHTTP(policy, r, e0) ==
    LET origin == HeaderGet(r, Origin)
        hm == getHostAndMethods(policy, origin)
        methods == hm.methods
    IN  IF ~hm.hostIncluded
        THEN requestDenied(
                 [e0 EXCEPT !.w = HeaderSet(@, AccessControlAllowOrigin, "null")],
                 "Request Blocked by CORS: Bad Host")
        ELSE
        LET e1 == [e0 EXCEPT !.w = HeaderSet(@, AccessControlAllowOrigin, origin)]
        IN  IF r.Method = "OPTIONS"
            THEN LET e2 == [e1 EXCEPT !.w =
                                HeaderSet(HeaderSet(@, AccessControlAllowOrigin, origin),
                                          AccessControlAllowMethods, Join(methods.items))]
                 IN  IF ~preflightMethodOK(r, methods)
                     THEN requestDenied(e2, "Request Blocked by CORS: Bad Method")
                     ELSE [e2 EXCEPT !.w = WriteHeader(@, StatusOK)]
            ELSE IF ~checkMethod(r.Method, methods)
            THEN requestDenied(e1, "Request Blocked by CORS: Bad Method")
            ELSE nextServeHTTP(e1)

(***************************************************************************)
(* The extended Middleware's queries (policy: origin -> methods, headers)  *)
(***************************************************************************)
isOriginAllowed(policy, origin) ==
    origin \in DOMAIN policy.kv \/ "*" \in DOMAIN policy.kv

allowedMethods(policy, origin) ==
    IF origin \in DOMAIN policy.kv THEN policy.kv[origin].items
    ELSE IF "*" \in DOMAIN policy.kv THEN policy.kv["*"].items
    ELSE <<>>

isMethodAllowed(policy, method, origin) ==
    \E i \in 1..Len(allowedMethods(policy, origin)) :
        \/ allowedMethods(policy, origin)[i] = method
        \/ allowedMethods(policy, origin)[i] = "*"

allowedHeaders(hp, origin) ==
    IF origin \in DOMAIN hp THEN hp[origin]
    ELSE IF "*" \in DOMAIN hp THEN hp["*"]
    ELSE <<>>

areHeadersAllowed(hp, headers, origin) ==
    \/ \E i \in 1..Len(allowedHeaders(hp, origin)) : allowedHeaders(hp, origin)[i] = "*"
    \/ \A j \in 1..Len(headers) :
           \E i \in 1..Len(allowedHeaders(hp, origin)) :
               allowedHeaders(hp, origin)[i] = headers[j]

(***************************************************************************)
(* Handler.ServeHTTP                                                       *)
(***************************************************************************)
errorRoot == "Request Blocked by CORS"

\* log.Println separates its operands by spaces
Handler_requestDenied(e, m) ==
    [e EXCEPT !.log = Append(@, errorRoot \o " " \o ": " \o " " \o m), !.w = WriteHeader(@, StatusForbidden)]

prepResponse(e) == [e EXCEPT !.w = HeaderAdd(@, varyHeader, originHeader)]

buildResponse_wildcard(e, origin, method, headers) ==
    [e EXCEPT !.w =
        HeaderSet(HeaderSet(HeaderSet(@, allowOriginHeader, "*"),
                            allowMethodsHeader, method),
                  allowHeadersHeader, Join(headers))]

buildResponse(e, origin, method, headers) ==
    [e EXCEPT !.w =
        HeaderSet(HeaderSet(HeaderSet(@, allowOriginHeader, origin),
                            allowMethodsHeader, method),
                  allowHeadersHeader, Join(headers))]

handleCommon(policy, hp, r, e, method) ==
    LET origin == HeaderGet(r, originHeader)
    IN  IF ~isOriginAllowed(policy, origin)
        THEN Handler_requestDenied(e, errorBadOrigin)
        ELSE IF ~isMethodAllowed(policy, method, origin)
        THEN Handler_requestDenied(e, errorBadMethod)
        ELSE LET headers == Split(HeaderGet(r, requestHeadersHeader))
             IN  IF ~areHeadersAllowed(hp, headers, origin)
                 THEN Handler_requestDenied(e, errorBadHeader)
                 ELSE buildResponse(e, origin, method, headers)

handlePreflight(policy, hp, r, e) ==
    LET method == IF HeaderGet(r, requestMethodHeader) = ""
                  THEN r.Method
                  ELSE HeaderGet(r, requestMethodHeader)
    IN  handleCommon(policy, hp, r, e, method)

handleRequest(policy, hp, r, e) == handleCommon(policy, hp, r, e, r.Method)

Handler_ServeHTTP(policy, hp, r, e0) ==
    LET e1 == prepResponse(e0)
        e2 == IF r.Method = optionsMethod
              THEN handlePreflight(policy, hp, r, e1)
              ELSE handleRequest(policy, hp, r, e1)
    IN  nextServeHTTP(e2)

(***************************************************************************)
(* Requests                                                                *)
(***************************************************************************)
MkHeader(o, rm, rh) ==
    [n \in RequestHeaderNames |->
        IF n = Origin THEN o
        ELSE IF n = AccessControlRequestMethod THEN rm
        ELSE rh]

Requests ==
    {[Method |-> m, Header |-> MkHeader(o, rm, rh)] :
        m \in RequestMethods, o \in RequestOrigins,
        rm \in RequestMethodValues, rh \in RequestHeadersValues}

NoRequest == [Method |-> "", Header |-> MkHeader("", "", "")]

NoResult == [by |-> "none", mw |-> NilMiddleware, err |-> "none"]

Called(by, res) == [by |-> by, mw |-> res.mw, err |-> res.err]

NoLookup == [origin |-> "", called |-> FALSE, hostIncluded |-> FALSE, methods |-> NilSlice]

\* the maps New accepts: the policies a handler can hold
ValidMaps == {m \in GoMaps : New(m).err = NoError}

(***************************************************************************)
(* Request handling: a handler built from a validated policy serves one    *)
(* request after another; no state is carried from one request to the next *)
(***************************************************************************)
Init ==
    /\ cfg \in ValidMaps
    /\ variant \in {"CorsHandler", "Handler"}
    /\ hdrPolicy \in [DOMAIN cfg.kv -> HeaderPolicies]
    /\ variant = "CorsHandler" => \A k \in DOMAIN hdrPolicy : hdrPolicy[k] = <<>>
    /\ allowedOrigins = cfg
    /\ made = Called("New", New(cfg))
    /\ lk = NoLookup
    /\ pc = "idle"
    /\ req = NoRequest
    /\ x = NewExchange

ServeCors(r) ==
    /\ pc = "idle"
    /\ variant = "CorsHandler"
    /\ req' = r
    /\ x' = CorsHandler_ServeHTTP(cfg, r, NewExchange)
    /\ pc' = "served"
    /\ UNCHANGED <<allowedOrigins, made, lk, variant, cfg, hdrPolicy>>

ServeExt(r) ==
    /\ pc = "idle"
    /\ variant = "Handler"
    /\ req' = r
    /\ x' = Handler_ServeHTTP(cfg, hdrPolicy, r, NewExchange)
    /\ pc' = "served"
    /\ UNCHANGED <<allowedOrigins, made, lk, variant, cfg, hdrPolicy>>

\* the response has been handed back; the exchange is discarded
Complete ==
    /\ pc = "served"
    /\ pc' = "idle"
    /\ req' = NoRequest
    /\ x' = NewExchange
    /\ UNCHANGED <<allowedOrigins, made, lk, variant, cfg, hdrPolicy>>

Next ==
    \/ \E r \in Requests : ServeCors(r)
    \/ \E r \in Requests : ServeExt(r)
    \/ Complete

Spec == Init /\ [][Next]_vars

(***************************************************************************)
(* Construction and lookup on arbitrary maps                               *)
(***************************************************************************)
InitConfig ==
    /\ allowedOrigins \in GoMaps
    /\ made = NoResult
    /\ lk = NoLookup
    /\ variant = "none"
    /\ cfg = NilMap
    /\ hdrPolicy = <<>>
    /\ pc = "config"
    /\ req = NoRequest
    /\ x = NewExchange

CallNew ==
    /\ pc = "config"
    /\ made' = Called("New", New(allowedOrigins))
    /\ UNCHANGED <<allowedOrigins, lk, variant, cfg, hdrPolicy, pc, req, x>>

CallFromOther ==
    /\ pc = "config"
    /\ made' = Called("FromOther", FromOther([AllowedOrigins |-> allowedOrigins]))
    /\ UNCHANGED <<allowedOrigins, lk, variant, cfg, hdrPolicy, pc, req, x>>

CallGetHostAndMethods(o) ==
    /\ pc = "config"
    /\ lk' = [origin |-> o, called |-> TRUE,
              hostIncluded |-> getHostAndMethods(allowedOrigins, o).hostIncluded,
              methods |-> getHostAndMethods(allowedOrigins, o).methods]
    /\ UNCHANGED <<allowedOrigins, made, variant, cfg, hdrPolicy, pc, req, x>>

NextConfig ==
    \/ CallNew
    \/ CallFromOther
    \/ \E o \in RequestOrigins : CallGetHostAndMethods(o)

SpecConfig == InitConfig /\ [][NextConfig]_vars

(***************************************************************************)
(* Vocabulary of the properties                                            *)
(***************************************************************************)
Served == pc = "served"

ReqOrigin == HeaderGet(req, Origin)

Preflight == req.Method = "OPTIONS"

\* the handler refused the request (each refusal is logged once)
Denied == Len(x.log) > 0

DeniedFor(reason) == x.log = <<reason>>

BadOriginCors == "Request Blocked by CORS: Bad Host"
BadOriginExt == "Request Blocked by CORS :  Bad Origin"
BadMethodExt == "Request Blocked by CORS :  Bad Method"

DeniedBadOrigin == DeniedFor(BadOriginCors) \/ DeniedFor(BadOriginExt)

\* the policy's answer as the specification defines it: an origin is allowed
\* when it is a key or "*" is a key; its method set is the exact entry's, else
\* the wildcard entry's
PolicyKeysOf(m) == DOMAIN m.kv

PolicyAllowsOrigin(m, o) == o \in PolicyKeysOf(m) \/ "*" \in PolicyKeysOf(m)

PolicyMethods(m, o) ==
    IF o \in PolicyKeysOf(m) THEN m.kv[o].items
    ELSE IF "*" \in PolicyKeysOf(m) THEN m.kv["*"].items
    ELSE <<>>

PolicyAllowsMethod(m, method, o) ==
    \E i \in 1..Len(PolicyMethods(m, o)) :
        PolicyMethods(m, o)[i] \in {method, "*"}

PolicyAllowsHeaders(hp, headers, o) ==
    LET allowed == IF o \in DOMAIN hp THEN hp[o]
                   ELSE IF "*" \in DOMAIN hp THEN hp["*"] ELSE <<>>
        names == {allowed[i] : i \in 1..Len(allowed)}
    IN  "*" \in names \/ \A j \in 1..Len(headers) : headers[j] \in names

AllowOrigin == x.w.header[allowOriginHeader]

(***************************************************************************)
(* C1: a preflight (OPTIONS) request never reaches the next handler, in    *)
(* either handler, whether it is allowed or denied.                        *)
(***************************************************************************)
C1_PreflightNeverForwarded == (Served /\ Preflight) => x.next = 0

(***************************************************************************)
(* C2: a denied request gets status 403 and the next handler is not        *)
(* invoked, in either handler.                                             *)
(***************************************************************************)
C2_DenialIs403AndNotForwarded ==
    (Served /\ Denied) => (x.w.status = StatusForbidden /\ x.next = 0)

(***************************************************************************)
(* C3: a non-OPTIONS request whose origin and method the policy allows     *)
(* (and, in Handler, whose headers it allows) reaches the next handler     *)
(* exactly once.                                                           *)
(***************************************************************************)
C3_Passes ==
    /\ Served
    /\ ~Preflight
    /\ PolicyAllowsOrigin(cfg, ReqOrigin)
    /\ PolicyAllowsMethod(cfg, req.Method, ReqOrigin)
    /\ variant = "Handler" =>
           PolicyAllowsHeaders(hdrPolicy, Split(HeaderGet(req, requestHeadersHeader)),
                               ReqOrigin)

C3_AllowedActualForwardedOnce == C3_Passes => x.next = 1

\* an actual request admitted by CorsHandler through the wildcard method token
C3_Witness ==
    /\ C3_Passes
    /\ variant = "CorsHandler"
    /\ req.Method = "DELETE"
    /\ x.next = 1

(***************************************************************************)
(* C4: a request whose origin the policy does not allow is answered with   *)
(* Access-Control-Allow-Origin: null, in either handler.                   *)
(***************************************************************************)
C4_OriginDenialSetsNull ==
    (Served /\ Denied /\ ~PolicyAllowsOrigin(cfg, ReqOrigin)) =>
        (AllowOrigin = <<"null">> /\ x.w.sent[allowOriginHeader] = <<"null">>)

(***************************************************************************)
(* C5: every response carries Vary: Origin, set before the status is       *)
(* written, in either handler.                                             *)
(***************************************************************************)
C5_VaryOriginOnEveryResponse ==
    Served =>
        /\ \E i \in 1..Len(x.w.header[varyHeader]) : x.w.header[varyHeader][i] = "Origin"
        /\ x.w.status # 0 =>
               \E i \in 1..Len(x.w.sent[varyHeader]) : x.w.sent[varyHeader][i] = "Origin"

(***************************************************************************)
(* C6: getHostAndMethods(P, o) reports the origin allowed iff o is a key   *)
(* of P or "*" is a key of P, also when a key is bound to a nil or empty   *)
(* list.                                                                   *)
(***************************************************************************)
C6_OriginAllowedIffKey ==
    lk.called =>
        (lk.hostIncluded <=> PolicyAllowsOrigin(allowedOrigins, lk.origin))

(***************************************************************************)
(* C7: when o is a key of P, getHostAndMethods(P, o) returns P[o]'s        *)
(* methods, whatever P[o] holds; the wildcard entry's methods are returned *)
(* only when o is not a key.                                               *)
(***************************************************************************)
C7_ExactEntryTakesPrecedence ==
    (/\ lk.called
     /\ lk.origin \in PolicyKeysOf(allowedOrigins)
     /\ "*" \in PolicyKeysOf(allowedOrigins)) =>
        lk.methods.items = allowedOrigins.kv[lk.origin].items

(***************************************************************************)
(* C8: on the success path Access-Control-Allow-Origin is the request's    *)
(* Origin value and never "*".                                             *)
(***************************************************************************)
C8_Success == Served /\ ~Denied

C8_EchoNeverWildcard ==
    C8_Success => (AllowOrigin = <<ReqOrigin>> /\ AllowOrigin # <<"*">>)

\* C8 as amended: on the success path Access-Control-Allow-Origin is the
\* request's Origin value, whichever policy entry matched, in the headers the
\* handler leaves and in the headers sent with a status it wrote; so it is
\* "*" only when the request's own Origin header is "*".
C8_EchoesRequestOrigin ==
    C8_Success =>
        /\ AllowOrigin = <<ReqOrigin>>
        /\ x.w.status # 0 => x.w.sent[allowOriginHeader] = <<ReqOrigin>>
        /\ AllowOrigin = <<"*">> => ReqOrigin = "*"

\* a request admitted through the "*" entry, from an origin that is no key
C8_Witness ==
    /\ C8_Success
    /\ variant = "Handler"
    /\ ReqOrigin = "http://b.com"
    /\ "*" \in PolicyKeysOf(cfg)
    /\ AllowOrigin = <<"http://b.com">>

(***************************************************************************)
(* C9: New fails, returning no middleware, iff the map is empty (or nil)   *)
(* or has "" as a key; otherwise it returns a middleware holding the map   *)
(* and no error. FromOther gives New's result.                             *)
(***************************************************************************)
C9_Rejected ==
    PolicyKeysOf(allowedOrigins) = {} \/ "" \in PolicyKeysOf(allowedOrigins)

\* the *CorsMiddleware of the last call: New's first result, or the pointer
\* held by the plugin.Middleware that FromOther returned
C9_Pointer == IF made.by = "FromOther" THEN made.mw.ptr ELSE made.mw

\* the first result compared with nil (made.mw.isNil) tells whether a
\* middleware was returned
C9_SameResultFromBoth ==
    made.by \in {"New", "FromOther"} =>
        IF C9_Rejected
        THEN made.err # NoError /\ made.mw.isNil
        ELSE /\ made.err = NoError
             /\ ~made.mw.isNil
             /\ C9_Pointer.AllowedOrigins = allowedOrigins

\* C9 as amended: New returns an error and a nil *CorsMiddleware iff the map
\* is empty (or nil) or has "" as a key, and otherwise a pointer to a
\* middleware holding that map and no error. FromOther returns New's error
\* and New's pointer wrapped in a plugin.Middleware: the pointer held is nil
\* on exactly the rejected maps, but the interface value itself is never nil.
C9_NewValidates ==
    made.by \in {"New", "FromOther"} =>
        /\ IF C9_Rejected
           THEN made.err = ErrNoOrigin /\ C9_Pointer.isNil
           ELSE /\ made.err = NoError
                /\ ~C9_Pointer.isNil
                /\ C9_Pointer.AllowedOrigins = allowedOrigins
        /\ made.by = "FromOther" => ~made.mw.isNil

\* a non-empty map refused for its "" key, through FromOther: the error is
\* returned with a non-nil interface holding the nil pointer
C9_Witness ==
    /\ made.by = "FromOther"
    /\ "" \in PolicyKeysOf(allowedOrigins)
    /\ "*" \in PolicyKeysOf(allowedOrigins)
    /\ made.err = ErrNoOrigin
    /\ made.mw.ptr.isNil
    /\ ~made.mw.isNil

(***************************************************************************)
(* C10: a preflight from an allowed origin without                         *)
(* Access-Control-Request-Method is checked with the method OPTIONS: 200   *)
(* only if the origin's method set holds OPTIONS or "*", else 403, in      *)
(* either handler.                                                         *)
(***************************************************************************)
C10_Case ==
    /\ Served
    /\ Preflight
    /\ HeaderGet(req, AccessControlRequestMethod) = ""
    /\ ~DeniedBadOrigin

C10_FallbackMethodChecked ==
    (C10_Case /\ PolicyAllowsOrigin(cfg, ReqOrigin)) =>
        /\ x.w.status = StatusOK => PolicyAllowsMethod(cfg, "OPTIONS", ReqOrigin)
        /\ ~PolicyAllowsMethod(cfg, "OPTIONS", ReqOrigin) =>
               x.w.status = StatusForbidden

\* C10 as amended: for a preflight without Access-Control-Request-Method
\* that passes the origin check, CorsHandler makes no method check and
\* answers 200 whatever the origin's method set; Handler probes the method
\* OPTIONS and denies the request for its method (403) exactly when the
\* origin's method set holds neither OPTIONS nor "*". Neither writes any
\* status but 200 or 403.
C10_FallbackPerHandler ==
    C10_Case =>
        /\ variant = "CorsHandler" =>
               (x.w.status = StatusOK /\ ~Denied /\ x.next = 0)
        /\ variant = "Handler" =>
               /\ DeniedFor(BadMethodExt) <=>
                      ~PolicyAllowsMethod(cfg, "OPTIONS", ReqOrigin)
               /\ DeniedFor(BadMethodExt) => x.w.status = StatusForbidden

\* CorsHandler answers 200 although the origin's methods are GET only
C10_Witness ==
    /\ C10_Case
    /\ variant = "CorsHandler"
    /\ ReqOrigin = "http://a.com"
    /\ PolicyMethods(cfg, ReqOrigin) = <<"GET">>
    /\ x.w.status = StatusOK

====
